---- MODULE Spec2Model ----
(***************************************************************************)
(* A state-machine model of the ledger service (hesabFun/ledger-service):  *)
(* the gRPC service layer (internal/service), the repositories             *)
(* (internal/repository), the tenant-scoped connection helpers             *)
(* (internal/db) and the PostgreSQL store they talk to.                    *)
(*                                                                         *)
(* Client processes issue requests concurrently.  Every database call of   *)
(* a handler is one step, so that handlers interleave at the points where  *)
(* the Go code blocks on the store.  The deferred calls of a handler run   *)
(* in the step that lets the handler return.                               *)
(***************************************************************************)
EXTENDS Integers, Sequences, FiniteSets, TLC

(***************************************************************************)
(* Bounds of the model.                                                    *)
(***************************************************************************)
PoolSize == 2
MaxEntries == 2
MaxAccounts == 4
MaxTenants == 3

Procs == {"p1", "p2"}

\* Identifiers are opaque UUIDs; the store hands them out in this order.
ConnNames == <<"c1", "c2", "c3", "c4">>
EntryIdPool == <<"e1", "e2", "e3", "e4">>
AccountIdPool == <<"a1", "a2", "b1", "n1", "n2", "n3">>
TenantIdPool == <<"A", "B", "C", "D", "E">>

Conns == {ConnNames[i] : i \in 1..PoolSize}
EntryIds == {EntryIdPool[i] : i \in 1..MaxEntries}
AccountIds == {AccountIdPool[i] : i \in 1..MaxAccounts}
TenantIds == {TenantIdPool[i] : i \in 1..MaxTenants}

NoConn == "nil"
NoTenant == "unset"
NoId == "none"
BadUuid == "invalid-uuid"

VARIABLES
    tenants,            \* table tenants: the set of tenant ids
    accounts,           \* table accounts: id -> [tenant_id]
    account_balances,   \* table account_balances: account id -> [debit, credit]
    journal_entries,    \* tables journal_entries + journal_entry_lines
    pool,               \* the pgxpool connections and their server sessions
    pc,                 \* where each client's handler stands
    req,                \* the request a client's handler serves
    ctxDone,            \* whether the caller's context is cancelled
    txConn,             \* TenantTx.conn of the handler (NoConn once released)
    rdConn,             \* the connection WithTenant returned to the handler
    newID,              \* the id Scan stored after the database function ran
    result,             \* the response of the finished handler
    listArgs,           \* the limit and offset a list handler hands to List
    dbUser              \* cfg.User: the role the pool's connections log in as

store == <<tenants, accounts, account_balances, journal_entries>>
vars == <<tenants, accounts, account_balances, journal_entries, pool, pc, req,
          ctxDone, txConn, rdConn, newID, result, listArgs, dbUser>>

(***************************************************************************)
(* Amounts.  A decimal is held as an integer number of hundredths.         *)
(***************************************************************************)
AmountStrings == {"0", "100", "99.99", "-5", "abc", ""}

\* decimal.NewFromString: the parsed value, or an error.
NewFromString(s) ==
    CASE s = "0" -> [err |-> FALSE, val |-> 0]
      [] s = "100" -> [err |-> FALSE, val |-> 10000]
      [] s = "99.99" -> [err |-> FALSE, val |-> 9999]
      [] s = "-5" -> [err |-> FALSE, val |-> 0 - 500]
      [] OTHER -> [err |-> TRUE, val |-> 0]

\* uuid.Parse: an error for a malformed string.
UuidParse(s) == [err |-> s = BadUuid, id |-> s]

\* Decimal.String of a balance: the text, held as its sign, its integer
\* digits and its two fraction digits.
DecimalText(v) ==
    LET m == IF v < 0 THEN 0 - v ELSE v
    IN [sign |-> IF v < 0 THEN "-" ELSE "", units |-> m \div 100,
        hundredths |-> m % 100]

\* The number a decimal text denotes.
TextValue(t) ==
    (IF t.sign = "-" THEN 0 - 1 ELSE 1) * (t.units * 100 + t.hundredths)

\* The net balance computed as credit minus debit.
SubReversed(d, c) == c - d

\* Decimal.Sub: exact.
Sub(d, c) == d - c

RECURSIVE SumDebit(_)
SumDebit(ls) ==
    IF ls = <<>> THEN 0 ELSE Head(ls).debit + SumDebit(Tail(ls))

RECURSIVE SumCredit(_)
SumCredit(ls) ==
    IF ls = <<>> THEN 0 ELSE Head(ls).credit + SumCredit(Tail(ls))

LineAccounts(ls) == {ls[i].account_id : i \in DOMAIN ls}

\* The lines of ls that are against account a.
LinesOf(ls, a) == SelectSeq(ls, LAMBDA l : l.account_id = a)

(***************************************************************************)
(* The store's sessions.  A pooled connection is a server session: it may  *)
(* have a transaction open, a session-level and a transaction-local value  *)
(* of app.current_tenant_id, and the uncommitted writes of its             *)
(* transaction.  "bound" is the tenant its present holder asked it to be    *)
(* bound to, "served" the tenant the holder before that one did.           *)
(***************************************************************************)
NoWrites == [kind |-> "none", id |-> NoId, tenant_id |-> NoTenant,
             lines |-> <<>>, bal |-> <<>>, account_number |-> "",
             parent_account_id |-> NoId]

\* A row of table accounts.
AccountRecord(t, number, parent) ==
    [tenant_id |-> t, account_number |-> number, parent_account_id |-> parent]

FreshConn == [inUse |-> FALSE, txOpen |-> FALSE, session |-> NoTenant,
              local |-> NoTenant, pending |-> NoWrites, bound |-> NoTenant,
              served |-> NoTenant]

\* current_setting('app.current_tenant_id') as a statement on session s sees it.
CurrentTenant(s) ==
    IF s.txOpen /\ s.local # NoTenant THEN s.local ELSE s.session

\* SET app.current_tenant_id (session level): stays after the transaction.
SetSessionTenant(s, t) ==
    [s EXCEPT !.session = t, !.bound = t]

\* "SET LOCAL app.current_tenant_id = $1": lasts to the end of the current
\* transaction; outside a transaction block it has no effect.
SetLocalTenant(s, t) ==
    IF s.txOpen THEN [s EXCEPT !.local = t, !.bound = t]
    ELSE [s EXCEPT !.bound = t]

\* The end of a transaction (COMMIT or ROLLBACK) on the session.
EndTx(s) == [s EXCEPT !.txOpen = FALSE, !.local = NoTenant, !.pending = NoWrites]

\* pgxpool.Conn.Release: a connection that is closed or still inside a
\* transaction is destroyed (the pool opens a new one in its place); an idle
\* one goes back as it is.
PoolRelease(s) ==
    IF s.txOpen THEN FreshConn
    ELSE [s EXCEPT !.inUse = FALSE, !.bound = NoTenant,
                   !.served = IF s.bound # NoTenant THEN s.bound ELSE @]

IdleConns == {c \in Conns : ~pool[c].inUse}

\* A table without the policy (row-level security off or bypassed).
NoPolicy(row_tenant, cur) == "visible"

\* CREATE POLICY tenant_isolation_policy ... USING
\*   (tenant_id = current_setting('app.current_tenant_id')::UUID):
\* current_setting(...)::UUID raises when the setting is absent or empty,
\* otherwise the row is visible exactly when its tenant is the current one.
TenantIsolationPolicy(row_tenant, cur) ==
    IF cur = NoTenant THEN "raise"
    ELSE IF row_tenant = cur THEN "visible" ELSE "hidden"

(***************************************************************************)
(* Requests.                                                               *)
(***************************************************************************)
Line(a, d, c) == [account_id |-> a, debit |-> d, credit |-> c]

JournalLineSeqs ==
    { <<>>,
      <<Line("a1", "100", "0")>>,
      <<Line("a1", "100", "0"), Line("a2", "0", "100")>>,
      <<Line("a1", "100", "0"), Line("a2", "0", "99.99")>>,
      <<Line("a1", "100", "0"), Line("b1", "0", "100")>>,
      <<Line("b1", "100", "0"), Line("b1", "0", "100")>>,
      <<Line("a1", "abc", "0"), Line("a2", "0", "100")>>,
      <<Line("a1", "100", "0"), Line(BadUuid, "0", "100")>> }

Request(op, t, id, name, number, lines) ==
    [op |-> op, tenant_id |-> t, id |-> id, name |-> name,
     account_number |-> number, lines |-> lines, page |-> 0, page_size |-> 0]

NoRequest == Request("none", NoTenant, NoId, "", "", <<>>)

ReqTenants == {"A", "B"}
ReqAccountIds == {"a1", "b1"}
ReqEntryIds == {"e1"}

TenantScopedReads ==
    {"GetAccount", "ListAccounts", "GetAccountBalance", "GetJournalEntry",
     "ListJournalEntries"}

Requests ==
    {Request("CreateJournalEntry", t, NoId, "", "", ls) :
        t \in ReqTenants, ls \in JournalLineSeqs}
    \cup {Request("CreateJournalEntry", BadUuid, NoId, "", "", <<>>)}
    \cup {Request("CreateAccount", "A", NoId, n, num, <<>>) :
        n \in {"", "Cash"}, num \in {"", "1000", "2000"}}
    \cup {Request("CreateAccount", t, NoId, "Cash", "2000", <<>>) :
        t \in {"B", BadUuid}}
    \cup {Request("CreateTenant", NoTenant, NoId, n, "", <<>>) : n \in {"", "Acme"}}
    \cup {Request("GetTenant", t, NoId, "", "", <<>>) : t \in {"A", "C", BadUuid}}
    \cup {Request(op, t, id, "", "", <<>>) :
        op \in {"GetAccount", "GetAccountBalance"}, t \in ReqTenants,
        id \in ReqAccountIds \cup {BadUuid}}
    \cup {Request("GetJournalEntry", t, id, "", "", <<>>) :
        t \in ReqTenants, id \in ReqEntryIds}
    \cup {Request(op, t, NoId, "", "", <<>>) :
        op \in {"ListAccounts", "ListJournalEntries"}, t \in ReqTenants}

(***************************************************************************)
(* The service layer: what each handler checks before it calls a           *)
(* repository.  A check yields the gRPC status it fails with, or "OK".     *)
(***************************************************************************)
Status(code, msg) == [code |-> code, msg |-> msg]

\* The error of request line l, "" when the line parses.
LineError(l) ==
    IF UuidParse(l.account_id).err THEN "invalid account ID"
    ELSE IF NewFromString(l.debit).err THEN "invalid debit amount"
    ELSE IF NewFromString(l.credit).err THEN "invalid credit amount"
    ELSE ""

\* The index of the first line that does not parse, 0 when all do.
FirstBadLine(ls) ==
    LET bad == {i \in DOMAIN ls : LineError(ls[i]) # ""}
    IN IF bad = {} THEN 0 ELSE CHOOSE i \in bad : \A j \in bad : i <= j

\* The line count below which CreateJournalEntry refuses a request.
MinLinesOff(ls) == Len(ls) < 1
MinLines(ls) == Len(ls) < 2

\* LedgerService.CreateJournalEntry up to the call of journalRepo.Create.
CreateJournalEntryCheck(r) ==
    IF UuidParse(r.tenant_id).err
    THEN Status("InvalidArgument", "invalid tenant ID")
    ELSE IF MinLines(r.lines)
    THEN Status("InvalidArgument", "journal entry must have at least two lines")
    ELSE IF FirstBadLine(r.lines) # 0
    THEN Status("InvalidArgument",
                LineError(r.lines[FirstBadLine(r.lines)]) \o " at line "
                \o ToString(FirstBadLine(r.lines) - 1))
    ELSE Status("OK", "")

\* The repository.CreateJournalEntryLineParams the handler builds.
LineParams(ls) ==
    [i \in DOMAIN ls |->
        [account_id |-> UuidParse(ls[i].account_id).id,
         debit |-> NewFromString(ls[i].debit).val,
         credit |-> NewFromString(ls[i].credit).val]]

\* CreateAccount passing the parent reference on unparsed.
CreateAccountNoParentParse(r) ==
    IF UuidParse(r.tenant_id).err
    THEN Status("InvalidArgument", "invalid tenant ID")
    ELSE IF r.account_number = ""
    THEN Status("InvalidArgument", "account number is required")
    ELSE IF r.name = ""
    THEN Status("InvalidArgument", "account name is required")
    ELSE Status("OK", "")

\* LedgerService.CreateAccount up to the call of accountRepo.Create; the id
\* of a CreateAccount request is its parent_account_id, NoId when absent.
CreateAccountCheck(r) ==
    IF UuidParse(r.tenant_id).err
    THEN Status("InvalidArgument", "invalid tenant ID")
    ELSE IF r.account_number = ""
    THEN Status("InvalidArgument", "account number is required")
    ELSE IF r.name = ""
    THEN Status("InvalidArgument", "account name is required")
    ELSE IF r.id # NoId /\ UuidParse(r.id).err
    THEN Status("InvalidArgument", "invalid parent account ID")
    ELSE Status("OK", "")

\* CreateTenant without the check of the name.
CreateTenantNoNameCheck(r) == Status("OK", "")

\* LedgerService.CreateTenant up to the call of tenantRepo.Create.
CreateTenantCheck(r) ==
    IF r.name = "" THEN Status("InvalidArgument", "tenant name is required")
    ELSE Status("OK", "")

\* GetTenant and the list handlers parse the tenant id only.
TenantIdCheck(r) ==
    IF UuidParse(r.tenant_id).err
    THEN Status("InvalidArgument", "invalid tenant ID")
    ELSE Status("OK", "")

\* GetAccount, GetAccountBalance and GetJournalEntry parse both ids.
TenantAndIdCheck(r, what) ==
    IF UuidParse(r.tenant_id).err
    THEN Status("InvalidArgument", "invalid tenant ID")
    ELSE IF UuidParse(r.id).err
    THEN Status("InvalidArgument", what)
    ELSE Status("OK", "")

\* ListJournalEntries parses the tenant id and, when set, the account filter
\* (the id of the request, NoId when absent).
ListJournalEntriesCheck(r) ==
    IF UuidParse(r.tenant_id).err
    THEN Status("InvalidArgument", "invalid tenant ID")
    ELSE IF r.id # NoId /\ UuidParse(r.id).err
    THEN Status("InvalidArgument", "invalid account ID")
    ELSE Status("OK", "")

ServiceCheck(r) ==
    CASE r.op = "CreateJournalEntry" -> CreateJournalEntryCheck(r)
      [] r.op = "ListJournalEntries" -> ListJournalEntriesCheck(r)
      [] r.op = "CreateAccount" -> CreateAccountCheck(r)
      [] r.op = "CreateTenant" -> CreateTenantCheck(r)
      [] r.op = "GetAccount" -> TenantAndIdCheck(r, "invalid account ID")
      [] r.op = "GetAccountBalance" -> TenantAndIdCheck(r, "invalid account ID")
      [] r.op = "GetJournalEntry" -> TenantAndIdCheck(r, "invalid journal entry ID")
      [] OTHER -> TenantIdCheck(r)

(***************************************************************************)
(* Pagination of the list handlers.  Go's int has 64 bits on the platforms *)
(* the service is built for; a value of that width is held here in two     *)
(* limbs, hi * 2^16 + lo with 0 <= lo < 2^16, so that the products of the  *)
(* largest int32 inputs are computed exactly.                              *)
(***************************************************************************)
Limb == 65536
MinInt32 == 0 - 2147483647 - 1
MaxInt32 == 2147483647

\* int(x) of an int32 x times an int of small magnitude.
IntMul(a, b) ==
    [hi |-> (a \div Limb) * b + ((a % Limb) * b) \div Limb,
     lo |-> ((a % Limb) * b) % Limb]

\* Quotient and remainder of a non-negative two-limb value by a small d > 0.
IntDivMod(v, d) ==
    LET r1 == (v.hi % d) * Limb + v.lo
    IN [quot |-> (v.hi \div d) * Limb + r1 \div d, rem |-> r1 % d]

\* "if page < 1 { page = 1 }" lost: the page is clamped to 0.
ClampPageToZero(page) == IF page < 1 THEN 0 ELSE page

\* page := int(req.GetPage()); if page < 1 { page = 1 }
ClampPage(page) == IF page < 1 THEN 1 ELSE page

\* pageSize := int(req.GetPageSize()); below 1 it is 50, above 100 it is 100.
ClampPageSize(pageSize) ==
    IF pageSize < 1 THEN 50 ELSE IF pageSize > 100 THEN 100 ELSE pageSize

NoListArgs == [limit |-> 0, offset |-> [hi |-> 0, lo |-> 0]]

ListOps == {"ListAccounts", "ListJournalEntries"}

\* The limit and offset ListAccounts and ListJournalEntries pass to List:
\* pageSize and offset := (page - 1) * pageSize.
ListArgs(r) ==
    IF r.op \in ListOps /\ ~UuidParse(r.tenant_id).err
    THEN [limit |-> ClampPageSize(r.page_size),
          offset |-> IntMul(ClampPage(r.page) - 1, ClampPageSize(r.page_size))]
    ELSE NoListArgs

\* The first repository step of a request that passed its checks.
FirstStep(r) ==
    CASE r.op \in {"CreateJournalEntry", "CreateAccount"} -> "begin"
      [] r.op = "CreateTenant" -> "t_create"
      [] r.op = "GetTenant" -> "t_get"
      [] OTHER -> "with"

\* The status a handler wraps a repository error in.
RepoErrorCode(op) ==
    IF op \in {"GetTenant", "GetAccount", "GetAccountBalance", "GetJournalEntry"}
    THEN "NotFound" ELSE "Internal"

\* CreateJournalEntry requests of one tenant over the amounts a line can carry.
AmountLineSeqs ==
    { <<Line("a1", "100", "0"), Line("a2", "0", "100")>>,
      <<Line("a1", "99.99", "0"), Line("a2", "0", "99.99")>>,
      <<Line("a1", "-5", "0"), Line("a2", "0", "-5")>>,
      <<Line("a1", "100", "0"), Line("a2", "0", "abc")>>,
      <<Line("a1", "", "0"), Line("a2", "0", "100")>>,
      <<Line("a1", "-5", "0"), Line("a2", "abc", "100")>> }

AmountRequests ==
    {Request("CreateJournalEntry", "A", NoId, "", "", ls) : ls \in AmountLineSeqs}

\* CreateAccount requests over its fields, and the balance reads of the
\* accounts they create.
AccountRequests ==
    {Request("CreateAccount", t, parent, n, num, <<>>) :
        t \in {"A", BadUuid}, parent \in {NoId, "a1", "b1", "n3", BadUuid},
        n \in {"", "Bank"}, num \in {"", "1000", "2000"}}
    \cup {Request("GetAccountBalance", "A", id, "", "", <<>>) : id \in {"a1", "n1"}}

\* List requests over the int32 values of page and page_size.
PageValues == {MinInt32, 0 - 1, 0, 1, 2, 3, 65537, MaxInt32}
PageSizeValues == {MinInt32, 0 - 1, 0, 1, 2, 49, 50, 99, 100, 101, MaxInt32}

PageRequests ==
    {[Request(op, t, NoId, "", "", <<>>) EXCEPT !.page = pg, !.page_size = ps] :
        op \in ListOps, t \in {"A"}, pg \in PageValues, ps \in PageSizeValues}
    \cup {[Request(op, BadUuid, NoId, "", "", <<>>) EXCEPT !.page = 2, !.page_size = 2] :
        op \in ListOps}

\* The requests sent to a service that runs as the superuser: entries (one
\* of them with both lines against one account), an account, and the reads.
SuperuserRequests ==
    {Request("CreateJournalEntry", "A", NoId, "", "",
             <<Line("a1", "100", "0"), Line("a2", "0", "100")>>),
     Request("CreateJournalEntry", "B", NoId, "", "",
             <<Line("b1", "100", "0"), Line("b1", "0", "100")>>),
     Request("CreateAccount", "A", NoId, "Bank", "2000", <<>>),
     Request("GetJournalEntry", "A", "e1", "", "", <<>>),
     Request("GetAccountBalance", "A", "a1", "", "", <<>>),
     Request("GetAccountBalance", "A", "a2", "", "", <<>>),
     Request("ListJournalEntries", "A", NoId, "", "", <<>>),
     Request("ListJournalEntries", "A", "a1", "", "", <<>>),
     Request("ListJournalEntries", "B", "b1", "", "", <<>>),
     Request("ListJournalEntries", "A", BadUuid, "", "", <<>>)}

\* The requests the clients of one tenant send concurrently.
ConcurrentRequests ==
    {Request("CreateJournalEntry", "A", NoId, "", "", ls) :
        ls \in {l \in JournalLineSeqs : Len(l) = 2 /\ FirstBadLine(l) = 0}}
    \cup {Request("CreateAccount", "A", NoId, "Bank", "2000", <<>>)}
    \cup {Request("GetAccountBalance", "A", id, "", "", <<>>) : id \in ReqAccountIds}
    \cup {Request("GetJournalEntry", "A", id, "", "", <<>>) : id \in ReqEntryIds}

(***************************************************************************)
(* The database functions and queries, run as statements on a session.     *)
(***************************************************************************)
\* Decimal.String and the store's numeric input: how an amount travels in
\* the JSON text handed to create_journal_entry.
DecimalString(v) ==
    CASE v = 0 -> "0"
      [] v = 10000 -> "100"
      [] v = 9999 -> "99.99"
      [] v = 0 - 500 -> "-5"
      [] OTHER -> "NaN"

NumericIn(s) == NewFromString(s).val

\* The lines as the database function reads them from its JSON argument.
LinesJSON(ls) ==
    [i \in DOMAIN ls |->
        [account_id |-> ls[i].account_id,
         debit |-> NumericIn(DecimalString(ls[i].debit)),
         credit |-> NumericIn(DecimalString(ls[i].credit))]]

\* The role of the README's defaults (DB_USER=postgres), a superuser, and a
\* role that owns no table and has no BYPASSRLS.
SuperUser == "postgres"
RestrictedUser == "ledger"

\* Row-level security as the store applies it to a statement of the
\* service's role: superusers are not subject to the policies.
RowSecurity(row_tenant, cur) ==
    IF dbUser = SuperUser THEN NoPolicy(row_tenant, cur)
    ELSE TenantIsolationPolicy(row_tenant, cur)

\* Whether the policy lets a statement with setting cur read anything.
PolicyRaises(cur) == RowSecurity(cur, cur) = "raise"

\* The accounts a statement with setting cur sees.
VisibleAccounts(cur) ==
    {a \in DOMAIN accounts :
        RowSecurity(accounts[a].tenant_id, cur) = "visible"}

\* The journal entries (and, through them, the lines) it sees.
VisibleEntries(cur) ==
    {e \in DOMAIN journal_entries :
        RowSecurity(journal_entries[e].tenant_id, cur) = "visible"}

\* Ids that uncommitted transactions of sessions have taken.
PendingIds == {pool[c].pending.id : c \in Conns}

\* The first id of idpool[1..max] that is not in used, NoId when all are.
NextId(idpool, max, used) ==
    LET free == {i \in 1..max : idpool[i] \notin used}
    IN IF free = {} THEN NoId
       ELSE idpool[CHOOSE i \in free : \A j \in free : i <= j]

\* The balance rows that open transactions of other sessions hold locked.
LockedByOthers(c) ==
    UNION {LineAccounts(pool[d].pending.lines) : d \in Conns \ {c}}

\* An UPDATE of a balance row waits while another transaction holds the row.
NoRowLocks(c, ls) == TRUE
RowLocksFree(c, ls) == LineAccounts(ls) \cap LockedByOthers(c) = {}

\* create_journal_entry without its balance validation.
JournalEntryNoBalanceCheck(cur, ls) ==
    \/ cur = NoTenant
    \/ Len(ls) < 2
    \/ \E a \in LineAccounts(ls) : a \notin VisibleAccounts(cur)

\* create_journal_entry without looking up the accounts of its lines.
JournalEntryNoAccountCheck(cur, ls) ==
    \/ cur = NoTenant
    \/ Len(ls) < 2
    \/ SumDebit(ls) # SumCredit(ls)

\* create_journal_entry raises: no tenant context, fewer than two lines,
\* debits different from credits, or a line against an account the tenant
\* does not have.
JournalEntryRaises(cur, ls) ==
    \/ cur = NoTenant
    \/ Len(ls) < 2
    \/ SumDebit(ls) # SumCredit(ls)
    \/ \E a \in LineAccounts(ls) : a \notin VisibleAccounts(cur)

\* The writes of create_journal_entry: the header and lines under a new id
\* and, for every account of a line, its balance row plus the line's amounts.
JournalEntryWrites(cur, ls, id) ==
    [kind |-> "entry", id |-> id, tenant_id |-> cur, lines |-> ls,
     account_number |-> "", parent_account_id |-> NoId,
     bal |-> [a \in LineAccounts(ls) |->
                [debit |-> account_balances[a].debit + SumDebit(LinesOf(ls, a)),
                 credit |-> account_balances[a].credit + SumCredit(LinesOf(ls, a))]]]

\* create_account without the validation of the parent reference.
AccountNoParentCheck(cur, number, parent) ==
    \/ cur = NoTenant
    \/ \E a \in DOMAIN accounts :
          accounts[a].tenant_id = cur /\ accounts[a].account_number = number

\* create_account raises: no tenant context, the account number is taken
\* within the tenant, or the parent is no account the tenant has.
AccountRaises(cur, number, parent) ==
    \/ cur = NoTenant
    \/ \E a \in DOMAIN accounts :
          accounts[a].tenant_id = cur /\ accounts[a].account_number = number
    \/ parent # NoId /\ parent \notin VisibleAccounts(cur)

\* The writes of create_account: the account row and its zero balance row.
AccountWrites(cur, number, parent, id) ==
    [kind |-> "account", id |-> id, tenant_id |-> cur,
     lines |-> <<>>, bal |-> <<>>, account_number |-> number,
     parent_account_id |-> parent]

\* A commit that makes the header and lines durable without the balance rows.
CommittedWithoutBalances(w) ==
    /\ journal_entries' =
          IF w.kind = "entry"
          THEN journal_entries @@ (w.id :> [tenant_id |-> w.tenant_id, lines |-> w.lines])
          ELSE journal_entries
    /\ account_balances' =
          IF w.kind = "account"
          THEN account_balances @@ (w.id :> [debit |-> 0, credit |-> 0])
          ELSE account_balances
    /\ accounts' =
          IF w.kind = "account"
          THEN accounts @@ (w.id :> AccountRecord(w.tenant_id, w.account_number,
                                                  w.parent_account_id))
          ELSE accounts
    /\ UNCHANGED tenants

\* A commit that makes the account row durable without its balance row.
CommittedWithoutBalanceRow(w) ==
    /\ accounts' =
          IF w.kind = "account"
          THEN accounts @@ (w.id :> AccountRecord(w.tenant_id, w.account_number,
                                                  w.parent_account_id))
          ELSE accounts
    /\ UNCHANGED <<tenants, account_balances, journal_entries>>

\* A commit whose entry replaces the entries committed before it.
CommittedReplacing(w) ==
    /\ journal_entries' =
          IF w.kind = "entry"
          THEN (w.id :> [tenant_id |-> w.tenant_id, lines |-> w.lines])
          ELSE journal_entries
    /\ account_balances' =
          IF w.kind = "entry"
          THEN [a \in DOMAIN account_balances |->
                  IF a \in DOMAIN w.bal THEN w.bal[a] ELSE account_balances[a]]
          ELSE IF w.kind = "account"
          THEN account_balances @@ (w.id :> [debit |-> 0, credit |-> 0])
          ELSE account_balances
    /\ accounts' =
          IF w.kind = "account"
          THEN accounts @@ (w.id :> AccountRecord(w.tenant_id, w.account_number,
                                                  w.parent_account_id))
          ELSE accounts
    /\ UNCHANGED tenants

\* What COMMIT makes durable.
Committed(w) ==
    /\ journal_entries' =
          IF w.kind = "entry"
          THEN journal_entries @@ (w.id :> [tenant_id |-> w.tenant_id, lines |-> w.lines])
          ELSE journal_entries
    /\ account_balances' =
          IF w.kind = "entry"
          THEN [a \in DOMAIN account_balances |->
                  IF a \in DOMAIN w.bal THEN w.bal[a] ELSE account_balances[a]]
          ELSE IF w.kind = "account"
          THEN account_balances @@ (w.id :> [debit |-> 0, credit |-> 0])
          ELSE account_balances
    /\ accounts' =
          IF w.kind = "account"
          THEN accounts @@ (w.id :> AccountRecord(w.tenant_id, w.account_number,
                                                  w.parent_account_id))
          ELSE accounts
    /\ UNCHANGED tenants

(***************************************************************************)
(* internal/db: WithTenant, BeginTx, TenantTx.                             *)
(***************************************************************************)
\* pool.Acquire fails once the caller's context is done.
AcquireFails(done) == done

\* BeginTx after conn.Begin succeeded and SET LOCAL failed, without Release.
SetFailedNoRelease(s) == [EndTx(s) EXCEPT !.inUse = TRUE]

\* BeginTx after SET LOCAL failed: tx.Rollback, conn.Release.
SetFailedCleanup(s) == PoolRelease(EndTx(s))

\* BeginTx binding the tenant with a session-level SET.
BindSession(s, t) == SetSessionTenant(s, t)

\* BeginTx: the statement that binds the tenant inside the transaction.
BindTenant(s, t) == SetLocalTenant(s, t)

\* TenantTx.Commit with a context that is never done.
CommitIgnoringCtx(done) == {"committed", "failed", "lost_ack"}

\* TenantTx.Commit: tx.Commit(ctx).  A done context fails before anything is
\* sent; otherwise the store commits, refuses, or commits and the
\* acknowledgement is lost.
CommitOutcomes(done) ==
    IF done THEN {"failed"} ELSE {"committed", "failed", "lost_ack"}

\* TenantTx.Commit that keeps the connection until Create returns.
CommitKeepsConn(s) == EndTx(s)

\* TenantTx.Commit after tx.Commit succeeded: t.conn.Release().
CommitRelease(s) == PoolRelease(EndTx(s))

\* TenantTx.Rollback, then conn.Release: ends the transaction on the session
\* the handle still holds.
RollbackRelease(s) == PoolRelease(EndTx(s))

\* A pgxpool.Conn that still refers to its connection after Release.
StaleHandle(c) == c

\* pgxpool.Conn.Release: returns at once when the handle holds no connection
\* and otherwise gives the connection back and forgets it, so the handle of a
\* released TenantTx refers to none.
ReleasedHandle(c) == NoConn

\* The deferred tx.Rollback(ctx) of Create when Create returns after its
\* commit: pgx.Tx.Rollback of a closed transaction sends nothing, and
\* t.conn.Release() acts on the connection the handle h still refers to.
DeferredRollback(pl, h) ==
    IF h = NoConn THEN pl ELSE [pl EXCEPT ![h] = PoolRelease(pl[h])]

TypeOK ==
    /\ pc \in [Procs -> {"idle", "begin", "call", "commit", "with", "query",
                         "t_create", "t_create_q", "t_get", "t_get_q", "done"}]
    /\ ctxDone \in [Procs -> BOOLEAN]
    /\ txConn \in [Procs -> Conns \cup {NoConn}]
    /\ rdConn \in [Procs -> Conns \cup {NoConn}]
    /\ DOMAIN accounts \subseteq AccountIds
    /\ DOMAIN journal_entries \subseteq EntryIds
    /\ DOMAIN tenants \subseteq TenantIds

\* The accounts that exist when the service starts.
SeedAccounts == {"a1", "a2", "b1"}

\* A slot above poolConfig.MaxConns: the pool never opens it, so no Acquire
\* is ever handed it.
Unopened == [FreshConn EXCEPT !.inUse = TRUE]

\* pgxpool.NewWithConfig with poolConfig.MaxConns = n.
NewPool(n) ==
    [c \in Conns |-> IF \E i \in 1..n : ConnNames[i] = c THEN FreshConn ELSE Unopened]

\* The service started with cfg.User = user and cfg.MaxConns = n.
InitPool(user, n) ==
    /\ dbUser = user
    /\ listArgs = [p \in Procs |-> NoListArgs]
    /\ tenants = ("A" :> "Acme") @@ ("B" :> "Bolt")
    /\ accounts = ("a1" :> AccountRecord("A", "1000", NoId))
               @@ ("a2" :> AccountRecord("A", "4000", NoId))
               @@ ("b1" :> AccountRecord("B", "1000", NoId))
    /\ account_balances = [a \in SeedAccounts |-> [debit |-> 0, credit |-> 0]]
    /\ journal_entries = <<>>
    /\ pool = NewPool(n)
    /\ pc = [p \in Procs |-> "idle"]
    /\ req = [p \in Procs |-> NoRequest]
    /\ ctxDone = [p \in Procs |-> FALSE]
    /\ txConn = [p \in Procs |-> NoConn]
    /\ rdConn = [p \in Procs |-> NoConn]
    /\ newID = [p \in Procs |-> NoId]
    /\ result = [p \in Procs |-> Status("", "")]

\* The service started with cfg.User = user and every slot of the pool open.
InitAs(user) == InitPool(user, PoolSize)

Init == InitAs(RestrictedUser)

\* The handler of p returns: status code, message, and the rows it carries.
Respond(p, code, msg, rows) ==
    /\ pc' = [pc EXCEPT ![p] = "done"]
    /\ result' = [result EXCEPT ![p] = [code |-> code, msg |-> msg, rows |-> rows]]

\* A repository error, wrapped by the handler of the request.
Fail(p, msg) == Respond(p, RepoErrorCode(req[p].op), msg, {})

\* A client sends one of the requests rs; the handler runs its checks.
Serve(p, rs) ==
    /\ pc[p] = "idle"
    /\ \E r \in rs :
          /\ req' = [req EXCEPT ![p] = r]
          /\ listArgs' = [listArgs EXCEPT ![p] = ListArgs(r)]
          /\ IF ServiceCheck(r).code = "OK"
             THEN /\ pc' = [pc EXCEPT ![p] = FirstStep(r)]
                  /\ UNCHANGED result
             ELSE Respond(p, ServiceCheck(r).code, ServiceCheck(r).msg, {})
    /\ UNCHANGED <<store, pool, ctxDone, txConn, rdConn, newID, dbUser>>

\* Any request, while no other handler is running.
Start(p) ==
    /\ p = "p1"
    /\ \A q \in Procs \ {p} : pc[q] = "idle"
    /\ Serve(p, Requests)

\* A request of tenant A's clients, whatever the other handlers do.
StartConcurrent(p) == Serve(p, ConcurrentRequests)

\* The caller cancels, or its deadline expires.
Cancel(p) ==
    /\ pc[p] \notin {"idle", "done"}
    /\ ~ctxDone[p]
    /\ ctxDone' = [ctxDone EXCEPT ![p] = TRUE]
    /\ UNCHANGED <<store, pool, pc, req, txConn, rdConn, newID, result, listArgs, dbUser>>

\* The client takes the response; the handler's locals are gone.
Return(p) ==
    /\ pc[p] = "done"
    /\ pc' = [pc EXCEPT ![p] = "idle"]
    /\ req' = [req EXCEPT ![p] = NoRequest]
    /\ ctxDone' = [ctxDone EXCEPT ![p] = FALSE]
    /\ newID' = [newID EXCEPT ![p] = NoId]
    /\ result' = [result EXCEPT ![p] = Status("", "")]
    /\ listArgs' = [listArgs EXCEPT ![p] = NoListArgs]
    /\ UNCHANGED <<store, pool, txConn, rdConn, dbUser>>

\* DB.BeginTx, called first by JournalRepository.Create and
\* AccountRepository.Create.
BeginTx(p) ==
    /\ pc[p] = "begin"
    /\ \/ /\ AcquireFails(ctxDone[p])
          /\ Fail(p, "failed to begin transaction")
          /\ UNCHANGED <<pool, txConn>>
       \/ /\ ~AcquireFails(ctxDone[p])
          /\ \E c \in IdleConns :
                \/ \* conn.Begin fails: conn.Release
                   /\ Fail(p, "failed to begin transaction")
                   /\ pool' = [pool EXCEPT ![c] = PoolRelease(pool[c])]
                   /\ UNCHANGED txConn
                \/ \* SET LOCAL fails: tx.Rollback, conn.Release
                   /\ Fail(p, "failed to begin transaction")
                   /\ pool' = [pool EXCEPT ![c] =
                         SetFailedCleanup([pool[c] EXCEPT !.inUse = TRUE, !.txOpen = TRUE])]
                   /\ UNCHANGED txConn
                \/ /\ pool' = [pool EXCEPT ![c] =
                         BindTenant([pool[c] EXCEPT !.inUse = TRUE, !.txOpen = TRUE],
                                    req[p].tenant_id)]
                   /\ txConn' = [txConn EXCEPT ![p] = c]
                   /\ pc' = [pc EXCEPT ![p] = "call"]
                   /\ UNCHANGED result
    /\ UNCHANGED <<store, req, ctxDone, rdConn, newID, listArgs, dbUser>>

\* The statement of Create fails: return, and the deferred tx.Rollback runs.
CallFails(p, msg) ==
    /\ Fail(p, msg)
    /\ pool' = [pool EXCEPT ![txConn[p]] = RollbackRelease(pool[txConn[p]])]
    /\ txConn' = [txConn EXCEPT ![p] = NoConn]
    /\ UNCHANGED newID

\* JournalRepository.Create: SELECT create_journal_entry(...) in the transaction.
JournalCreateCall(p) ==
    /\ pc[p] = "call"
    /\ req[p].op = "CreateJournalEntry"
    /\ LET c == txConn[p]
           cur == CurrentTenant(pool[c])
           ls == LinesJSON(LineParams(req[p].lines))
           id == NextId(EntryIdPool, MaxEntries, DOMAIN journal_entries \cup PendingIds)
       IN \/ CallFails(p, "failed to create journal entry")
          \/ /\ ~ctxDone[p]
             /\ ~JournalEntryRaises(cur, ls)
             /\ RowLocksFree(c, ls)
             /\ id # NoId
             /\ pool' = [pool EXCEPT ![c].pending = JournalEntryWrites(cur, ls, id)]
             /\ newID' = [newID EXCEPT ![p] = id]
             /\ pc' = [pc EXCEPT ![p] = "commit"]
             /\ UNCHANGED <<txConn, result>>
    /\ UNCHANGED <<store, req, ctxDone, rdConn, listArgs, dbUser>>

\* AccountRepository.Create: SELECT create_account(...) in the transaction.
AccountCreateCall(p) ==
    /\ pc[p] = "call"
    /\ req[p].op = "CreateAccount"
    /\ LET c == txConn[p]
           cur == CurrentTenant(pool[c])
           id == NextId(AccountIdPool, MaxAccounts, DOMAIN accounts \cup PendingIds)
       IN \/ CallFails(p, "failed to create account")
          \/ /\ ~ctxDone[p]
             /\ ~AccountRaises(cur, req[p].account_number, req[p].id)
             /\ \A d \in Conns \ {c} :
                   ~(/\ pool[d].pending.kind = "account"
                     /\ pool[d].pending.tenant_id = cur
                     /\ pool[d].pending.account_number = req[p].account_number)
             /\ id # NoId
             /\ pool' = [pool EXCEPT ![c].pending =
                            AccountWrites(cur, req[p].account_number, req[p].id, id)]
             /\ newID' = [newID EXCEPT ![p] = id]
             /\ pc' = [pc EXCEPT ![p] = "commit"]
             /\ UNCHANGED <<txConn, result>>
    /\ UNCHANGED <<store, req, ctxDone, rdConn, listArgs, dbUser>>

\* TenantTx.Commit in Create, then either the error return (the deferred
\* tx.Rollback finds the transaction closed and the handle released) or on to
\* r.GetByID.
Commit(p) ==
    /\ pc[p] = "commit"
    /\ LET c == txConn[p]
       IN /\ \E o \in CommitOutcomes(ctxDone[p]) :
                /\ IF o = "failed" THEN UNCHANGED store
                   ELSE Committed(pool[c].pending)
                /\ IF o = "committed"
                   THEN /\ pc' = [pc EXCEPT ![p] = "with"]
                        /\ pool' = [pool EXCEPT ![c] = CommitRelease(pool[c])]
                        /\ UNCHANGED result
                   ELSE /\ Fail(p, "failed to commit transaction")
                        /\ pool' = [pool EXCEPT ![c] =
                              IF o = "failed" /\ ~ctxDone[p]
                              THEN PoolRelease(EndTx(pool[c]))
                              ELSE PoolRelease(pool[c])]
          /\ txConn' = [txConn EXCEPT ![p] =
                IF pc'[p] = "with" THEN ReleasedHandle(c) ELSE NoConn]
    /\ UNCHANGED <<req, ctxDone, rdConn, newID, listArgs, dbUser>>

\* WithTenant: conn.Exec(ctx, "SET LOCAL app.current_tenant_id = $1", tenantID)
\* on the acquired connection, outside any transaction.
WithTenantBind(s, t) == SetLocalTenant(s, t)

\* DB.WithTenant, called first by every GetByID, List and GetBalance.
WithTenant(p) ==
    /\ pc[p] = "with"
    /\ \/ /\ AcquireFails(ctxDone[p])
          /\ Fail(p, "failed to set tenant context")
          /\ pool' = DeferredRollback(pool, txConn[p])
          /\ txConn' = [txConn EXCEPT ![p] = NoConn]
          /\ UNCHANGED rdConn
       \/ /\ ~AcquireFails(ctxDone[p])
          /\ \E c \in IdleConns :
                \/ \* conn.Exec fails: conn.Release
                   /\ Fail(p, "failed to set tenant context")
                   /\ pool' = DeferredRollback(
                                 [pool EXCEPT ![c] = PoolRelease(pool[c])], txConn[p])
                   /\ txConn' = [txConn EXCEPT ![p] = NoConn]
                   /\ UNCHANGED rdConn
                \/ /\ pool' = [pool EXCEPT ![c] =
                         WithTenantBind([pool[c] EXCEPT !.inUse = TRUE], req[p].tenant_id)]
                   /\ rdConn' = [rdConn EXCEPT ![p] = c]
                   /\ pc' = [pc EXCEPT ![p] = "query"]
                   /\ UNCHANGED <<result, txConn>>
    /\ UNCHANGED <<store, req, ctxDone, newID, listArgs, dbUser>>

\* A GetByID after Create that looks up the first id of the table.
LookupFirstId(p) ==
    IF req[p].op = "CreateJournalEntry" THEN EntryIdPool[1]
    ELSE IF req[p].op = "CreateAccount" THEN AccountIdPool[1]
    ELSE req[p].id

\* The id a GetByID looks up: the one Create scanned, or the request's.
LookupId(p) ==
    IF req[p].op \in {"CreateJournalEntry", "CreateAccount", "CreateTenant"}
    THEN newID[p] ELSE req[p].id

\* The GetAccountBalanceResponse the handler builds from the balance the
\* repository returned.
GetAccountBalanceResponse(b) ==
    [account_id |-> b.id,
     debit_balance |-> DecimalText(b.debit),
     credit_balance |-> DecimalText(b.credit),
     net_balance |-> DecimalText(Sub(b.debit, b.credit))]

\* What the handler makes of the rows its repository returned.
Reply(r, rows) ==
    IF r.op = "GetAccountBalance"
    THEN {GetAccountBalanceResponse(b) : b \in rows}
    ELSE rows

\* The handler of p returns the rows read, and its reply built from them.
RespondOK(p, rows) ==
    /\ pc' = [pc EXCEPT ![p] = "done"]
    /\ result' = [result EXCEPT ![p] =
          [code |-> "OK", msg |-> "", rows |-> rows, reply |-> Reply(req[p], rows)]]

\* The statements of a read ran: return, and the deferred conn.Release runs.
\* err is "" when the rows were read.
ReadReturn(p, err, rows) ==
    /\ pc[p] = "query"
    /\ \/ \E msg \in {"query failed"} : Fail(p, msg)
       \/ /\ ~ctxDone[p]
          /\ IF err # "" THEN Fail(p, err) ELSE RespondOK(p, rows)
    /\ pool' = DeferredRollback(
                   [pool EXCEPT ![rdConn[p]] = PoolRelease(pool[rdConn[p]])], txConn[p])
    /\ rdConn' = [rdConn EXCEPT ![p] = NoConn]
    /\ txConn' = [txConn EXCEPT ![p] = NoConn]
    /\ UNCHANGED <<store, req, ctxDone, newID, listArgs, dbUser>>

AccountRow(a) == [id |-> a, tenant_id |-> accounts[a].tenant_id]

BalanceRow(a) ==
    [id |-> a, tenant_id |-> accounts[a].tenant_id,
     debit |-> account_balances[a].debit, credit |-> account_balances[a].credit]

EntryRow(e) ==
    [id |-> e, tenant_id |-> journal_entries[e].tenant_id,
     lines |-> journal_entries[e].lines]

\* AccountRepository.GetByID: SELECT ... FROM accounts WHERE id = $1.
AccountGetByID(p) ==
    /\ req[p].op \in {"GetAccount", "CreateAccount"}
    /\ LET cur == CurrentTenant(pool[rdConn[p]])
           id == LookupId(p)
       IN ReadReturn(p,
             IF PolicyRaises(cur) THEN "failed to get account"
             ELSE IF id \notin VisibleAccounts(cur) THEN "account not found"
             ELSE "",
             {AccountRow(a) : a \in VisibleAccounts(cur) \cap {id}})

\* LIMIT $n OFFSET $m: the pages a query can return from the rows S it
\* matches; which rows lie on a page follows from an ordering by columns
\* that are not modelled.
Pages(S, args) ==
    LET n == Cardinality(S)
        take == IF args.offset.hi > 0 \/ args.offset.lo >= n THEN 0
                ELSE IF args.limit < n - args.offset.lo THEN args.limit
                ELSE n - args.offset.lo
    IN {T \in SUBSET S : Cardinality(T) = take}

\* AccountRepository.List: the count query, then the page of accounts.
AccountList(p) ==
    /\ req[p].op = "ListAccounts"
    /\ pc[p] = "query"
    /\ LET cur == CurrentTenant(pool[rdConn[p]])
       IN \E page \in Pages(VisibleAccounts(cur), listArgs[p]) :
             ReadReturn(p,
                IF PolicyRaises(cur) THEN "failed to count accounts" ELSE "",
                {AccountRow(a) : a \in page})

\* AccountRepository.GetBalance: SELECT ... FROM account_balances
\* WHERE account_id = $1 (the balance row is visible with its account).
AccountGetBalance(p) ==
    /\ req[p].op = "GetAccountBalance"
    /\ LET cur == CurrentTenant(pool[rdConn[p]])
           id == LookupId(p)
       IN ReadReturn(p,
             IF PolicyRaises(cur) THEN "failed to get account balance"
             ELSE IF id \notin VisibleAccounts(cur) THEN "balance not found for account"
             ELSE "",
             {BalanceRow(a) : a \in VisibleAccounts(cur) \cap {id}})

\* journal_entry_lines.created_at of line i of entry e: the lines of an entry
\* are inserted by one call of create_journal_entry in one transaction and
\* carry its timestamp.
LineCreatedAt(e, i) == 0

\* getLinesByJournalEntryID: SELECT ... WHERE journal_entry_id = $1
\* ORDER BY created_at.  The results: every order of the entry's lines that
\* is ascending in created_at (the order of rows with equal keys is not
\* specified).
LinesByCreatedAt(e) ==
    LET ls == journal_entries[e].lines
        sorted == {f \in Permutations(DOMAIN ls) :
                      \A i, j \in DOMAIN ls :
                          i < j => LineCreatedAt(e, f[i]) <= LineCreatedAt(e, f[j])}
    IN {[i \in DOMAIN ls |-> ls[f[i]]] : f \in sorted}

\* JournalRepository.GetByID: the header by id, then its lines.
JournalGetByID(p) ==
    /\ req[p].op \in {"GetJournalEntry", "CreateJournalEntry"}
    /\ pc[p] = "query"
    /\ LET cur == CurrentTenant(pool[rdConn[p]])
           id == LookupId(p)
       IN \E ls \in IF id \in DOMAIN journal_entries THEN LinesByCreatedAt(id)
                    ELSE {<<>>} :
             ReadReturn(p,
                IF PolicyRaises(cur) THEN "failed to get journal entry"
                ELSE IF id \notin VisibleEntries(cur) THEN "journal entry not found"
                ELSE "",
                {[EntryRow(e) EXCEPT !.lines = ls] : e \in VisibleEntries(cur) \cap {id}})

\* FROM journal_entries je INNER JOIN journal_entry_lines jel
\* ON je.id = jel.journal_entry_id WHERE jel.account_id = $1: one row for
\* every line against the account, as <<entry, line number>>.
JoinRows(cur, account) ==
    UNION {{<<e, i>> : i \in {j \in DOMAIN journal_entries[e].lines :
                                journal_entries[e].lines[j].account_id = account}} :
           e \in VisibleEntries(cur)}

\* SELECT DISTINCT je.id, ... of JournalRepository.List: the entries the
\* query matches, with the join only when the account filter is set.
MatchingEntries(cur, account) ==
    IF account = NoId THEN VisibleEntries(cur)
    ELSE {jr[1] : jr \in JoinRows(cur, account)}

\* COUNT(DISTINCT je.id) of the count query.
CountDistinct(cur, account) == Cardinality(MatchingEntries(cur, account))

\* pgx: a query on a connection whose previous rows are not closed fails
\* ("conn busy").  In the loop over the entries' rows the first row already
\* asks for its lines on the same connection.
ConnBusy(page) == page # {}

\* JournalRepository.List: the count query, the page of entries and, while
\* the rows of that query are still open, the lines query of each entry on the
\* same connection; then return, and the deferred conn.Release runs.
JournalList(p) ==
    /\ req[p].op = "ListJournalEntries"
    /\ pc[p] = "query"
    /\ LET cur == CurrentTenant(pool[rdConn[p]])
       IN \/ Fail(p, "query failed")
          \/ /\ ~ctxDone[p]
             /\ IF PolicyRaises(cur) THEN Fail(p, "failed to count journal entries")
                ELSE \E page \in Pages(MatchingEntries(cur, req[p].id), listArgs[p]) :
                        IF ConnBusy(page)
                        THEN Fail(p, "failed to get journal entry lines")
                        ELSE /\ pc' = [pc EXCEPT ![p] = "done"]
                             /\ result' = [result EXCEPT ![p] =
                                   [code |-> "OK", msg |-> "", rows |-> {},
                                    reply |-> {[journal_entries |-> {},
                                                total_count |->
                                                   CountDistinct(cur, req[p].id)]}]]
    /\ pool' = [pool EXCEPT ![rdConn[p]] = PoolRelease(pool[rdConn[p]])]
    /\ rdConn' = [rdConn EXCEPT ![p] = NoConn]
    /\ UNCHANGED <<store, req, ctxDone, txConn, newID, listArgs, dbUser>>

\* Pool().QueryRow of the tenant repository: the query acquires a connection.
PoolAcquire(p) ==
    /\ pc[p] \in {"t_create", "t_get"}
    /\ \/ /\ AcquireFails(ctxDone[p])
          /\ Fail(p, IF pc[p] = "t_create" THEN "failed to create tenant"
                     ELSE "failed to get tenant")
          /\ UNCHANGED <<pool, rdConn>>
       \/ /\ ~AcquireFails(ctxDone[p])
          /\ \E c \in IdleConns :
                /\ pool' = [pool EXCEPT ![c].inUse = TRUE]
                /\ rdConn' = [rdConn EXCEPT ![p] = c]
                /\ pc' = [pc EXCEPT ![p] = IF pc[p] = "t_create" THEN "t_create_q"
                                           ELSE "t_get_q"]
                /\ UNCHANGED result
    /\ UNCHANGED <<store, req, ctxDone, txConn, newID, listArgs, dbUser>>

\* TenantRepository.Create: SELECT create_tenant($1), Scan (which releases the
\* connection), then r.GetByID.
TenantCreate(p) ==
    /\ pc[p] = "t_create_q"
    /\ LET id == NextId(TenantIdPool, MaxTenants, DOMAIN tenants)
       IN \/ /\ Fail(p, "failed to create tenant")
             /\ UNCHANGED <<tenants, newID>>
          \/ /\ ~ctxDone[p]
             /\ id # NoId
             /\ tenants' = tenants @@ (id :> req[p].name)
             /\ newID' = [newID EXCEPT ![p] = id]
             /\ pc' = [pc EXCEPT ![p] = "t_get"]
             /\ UNCHANGED result
    /\ pool' = [pool EXCEPT ![rdConn[p]] = PoolRelease(pool[rdConn[p]])]
    /\ rdConn' = [rdConn EXCEPT ![p] = NoConn]
    /\ UNCHANGED <<accounts, account_balances, journal_entries, req, ctxDone, txConn, listArgs, dbUser>>

\* TenantRepository.GetByID: SELECT ... FROM tenants WHERE id = $1 (no policy
\* on tenants).
TenantGetByID(p) ==
    /\ pc[p] = "t_get_q"
    /\ LET id == IF req[p].op = "CreateTenant" THEN newID[p] ELSE req[p].tenant_id
       IN \/ Fail(p, "failed to get tenant")
          \/ /\ ~ctxDone[p]
             /\ IF id \in DOMAIN tenants
                THEN Respond(p, "OK", "", {[id |-> id, name |-> tenants[id]]})
                ELSE Fail(p, "failed to get tenant")
    /\ pool' = [pool EXCEPT ![rdConn[p]] = PoolRelease(pool[rdConn[p]])]
    /\ rdConn' = [rdConn EXCEPT ![p] = NoConn]
    /\ UNCHANGED <<store, req, ctxDone, txConn, newID, listArgs, dbUser>>

\* A client sends a CreateJournalEntry request over the amounts.
StartAmounts(p) ==
    /\ p = "p1"
    /\ \A q \in Procs \ {p} : pc[q] = "idle"
    /\ Serve(p, AmountRequests)

\* A client of either tenant sends a CreateJournalEntry request.
JournalRequests == {r \in Requests : r.op = "CreateJournalEntry"}

StartJournal(p) ==
    /\ p = "p1"
    /\ \A q \in Procs \ {p} : pc[q] = "idle"
    /\ Serve(p, JournalRequests)

\* A client of the service that runs as the superuser sends a request.
StartSuperuser(p) ==
    /\ p = "p1"
    /\ \A q \in Procs \ {p} : pc[q] = "idle"
    /\ Serve(p, SuperuserRequests)

\* A client sends a list request with some page and page size.
StartPaging(p) ==
    /\ p = "p1"
    /\ \A q \in Procs \ {p} : pc[q] = "idle"
    /\ Serve(p, PageRequests)

\* A client sends a CreateAccount request or reads a balance.
StartAccounts(p) ==
    /\ p = "p1"
    /\ \A q \in Procs \ {p} : pc[q] = "idle"
    /\ Serve(p, AccountRequests)

\* The steps of the handlers, whichever requests they serve.
Step(p) ==
    \/ Cancel(p)
    \/ Return(p)
    \/ BeginTx(p)
    \/ JournalCreateCall(p)
    \/ AccountCreateCall(p)
    \/ Commit(p)
    \/ WithTenant(p)
    \/ AccountGetByID(p)
    \/ AccountGetBalance(p)
    \/ JournalGetByID(p)

\* Every operation of the service, one handler at a time.
Next ==
    \E p \in Procs :
        \/ Start(p)
        \/ Step(p)
        \/ AccountList(p)
        \/ JournalList(p)
        \/ PoolAcquire(p)
        \/ TenantCreate(p)
        \/ TenantGetByID(p)

Spec == Init /\ [][Next]_vars

\* CreateJournalEntry over the amounts alone, one request at a time.
NextAmounts ==
    \E p \in Procs :
        \/ StartAmounts(p)
        \/ Cancel(p)
        \/ Return(p)
        \/ BeginTx(p)
        \/ JournalCreateCall(p)
        \/ Commit(p)
        \/ WithTenant(p)
        \/ JournalGetByID(p)

SpecAmounts == Init /\ [][NextAmounts]_vars

\* CreateJournalEntry of either tenant alone, one request at a time.
NextJournal ==
    \E p \in Procs :
        \/ StartJournal(p)
        \/ Cancel(p)
        \/ Return(p)
        \/ BeginTx(p)
        \/ JournalCreateCall(p)
        \/ Commit(p)
        \/ WithTenant(p)
        \/ JournalGetByID(p)

SpecJournal == Init /\ [][NextJournal]_vars

\* The service as the README's defaults start it: cfg.User is the superuser.
InitSuperuser == InitAs(SuperUser)

NextSuperuser ==
    \E p \in Procs :
        \/ StartSuperuser(p)
        \/ Cancel(p)
        \/ Return(p)
        \/ BeginTx(p)
        \/ JournalCreateCall(p)
        \/ AccountCreateCall(p)
        \/ Commit(p)
        \/ WithTenant(p)
        \/ AccountGetByID(p)
        \/ AccountGetBalance(p)
        \/ JournalGetByID(p)
        \/ JournalList(p)

SpecSuperuser == InitSuperuser /\ [][NextSuperuser]_vars

\* The list handlers alone, one request at a time.
NextPaging ==
    \E p \in Procs :
        \/ StartPaging(p)
        \/ Cancel(p)
        \/ Return(p)
        \/ WithTenant(p)
        \/ AccountList(p)
        \/ JournalList(p)

SpecPaging == Init /\ [][NextPaging]_vars

\* CreateAccount and GetAccountBalance alone, one request at a time.
NextAccounts ==
    \E p \in Procs :
        \/ StartAccounts(p)
        \/ Cancel(p)
        \/ Return(p)
        \/ BeginTx(p)
        \/ AccountCreateCall(p)
        \/ Commit(p)
        \/ WithTenant(p)
        \/ AccountGetByID(p)
        \/ AccountGetBalance(p)

SpecAccounts == Init /\ [][NextAccounts]_vars

NextConcurrent == \E p \in Procs : StartConcurrent(p) \/ Step(p)

SpecConcurrent == Init /\ [][NextConcurrent]_vars

\* The requests of clients that contend for the pool.
FairRequests ==
    {Request("CreateJournalEntry", "A", NoId, "", "",
             <<Line("a1", "100", "0"), Line("a2", "0", "100")>>),
     Request("GetAccountBalance", "A", "a1", "", "", <<>>)}

StartFair(p) == Serve(p, FairRequests)

\* The service started with a pool of any size from one connection up.
InitFair == \E n \in 1..PoolSize : InitPool(RestrictedUser, n)

\* A write with its follow-up read and a read, by concurrent handlers.
NextFair ==
    \E p \in Procs :
        \/ StartFair(p)
        \/ Cancel(p)
        \/ Return(p)
        \/ BeginTx(p)
        \/ JournalCreateCall(p)
        \/ Commit(p)
        \/ WithTenant(p)
        \/ AccountGetBalance(p)
        \/ JournalGetByID(p)

\* The steps a running handler takes by itself.
HandlerStep(p) ==
    \/ BeginTx(p)
    \/ JournalCreateCall(p)
    \/ Commit(p)
    \/ WithTenant(p)
    \/ AccountGetBalance(p)
    \/ JournalGetByID(p)

\* Every statement sent to the store is answered, so a handler that can take
\* its next step takes it; pool.Acquire serves its waiters in the order they
\* arrived, so a handler waiting for a connection gets one if connections
\* keep coming back: its acquisition is enabled again and again, which is
\* why the fairness is strong (for the statement steps, enabled until taken,
\* strong and weak fairness are the same).  Nothing obliges a client to send
\* a request or to cancel one.
Fairness == \A p \in Procs : SF_vars(HandlerStep(p))

SpecFair == InitFair /\ [][NextFair]_vars /\ Fairness

(***************************************************************************)
(* Properties of the journal engine.                                       *)
(***************************************************************************)
\* The parsed lines of a CreateJournalEntry request whose lines all parse.
ParsedLines(r) == LinesJSON(LineParams(r.lines))

\* A CreateJournalEntry request whose lines parse and whose total debit
\* differs from its total credit.
Unbalanced(r) ==
    /\ r.op = "CreateJournalEntry"
    /\ FirstBadLine(r.lines) = 0
    /\ SumDebit(ParsedLines(r)) # SumCredit(ParsedLines(r))

\* The debit and credit totals of the committed lines of entries es against
\* account a.
RECURSIVE CommittedLines(_, _)
CommittedLines(es, a) ==
    IF es = {} THEN [debit |-> 0, credit |-> 0]
    ELSE LET e == CHOOSE x \in es : TRUE
             rest == CommittedLines(es \ {e}, a)
             mine == LinesOf(journal_entries[e].lines, a)
         IN [debit |-> rest.debit + SumDebit(mine),
             credit |-> rest.credit + SumCredit(mine)]

\* C1: in every reachable state, whatever the interleaving of the
\* CreateJournalEntry calls, each account's stored debit_balance is the sum
\* of the debits of all committed lines against it and its credit_balance the
\* sum of their credits (no update is lost).
C1_BalanceIsSumOfCommittedLines ==
    \A a \in DOMAIN account_balances :
        account_balances[a] = CommittedLines(DOMAIN journal_entries, a)

\* Two handlers in flight at once each committed an entry against a1.
C1_TwoCommitsSameAccount ==
    /\ newID["p1"] \in DOMAIN journal_entries
    /\ newID["p2"] \in DOMAIN journal_entries
    /\ newID["p1"] # newID["p2"]
    /\ \A e \in {newID["p1"], newID["p2"]} :
          "a1" \in LineAccounts(journal_entries[e].lines)
    /\ account_balances["a1"].debit = 20000

\* C2: a CreateJournalEntry call whose total debit differs from its total
\* credit persists no header and no line and changes no account balance: no
\* step of the call changes the store.
C2_UnbalancedPersistsNothing ==
    [][\A p \in Procs :
          (Unbalanced(req[p]) /\ pc[p] # "idle") => store' = store]_vars

\* The store refused an unbalanced entry that the handler had passed on.
C2_UnbalancedRefused ==
    \E p \in Procs :
        /\ pc[p] = "done"
        /\ Unbalanced(req[p])
        /\ Len(req[p].lines) >= 2
        /\ ~ctxDone[p]
        /\ result[p].msg = "failed to create journal entry"

\* C3: a CreateJournalEntry call with at least two well-formed lines whose
\* total debit differs from its total credit fails with FailedPrecondition and
\* with no other kind.
C3_UnbalancedFailsFailedPrecondition ==
    \A p \in Procs :
        (/\ pc[p] = "done"
         /\ Unbalanced(req[p])
         /\ ServiceCheck(req[p]).code = "OK"
         /\ ~ctxDone[p]
         /\ result[p].msg = "failed to create journal entry")
        => result[p].code = "FailedPrecondition"

\* C4: a CreateJournalEntry request with 0 or 1 lines fails with
\* InvalidArgument and carries no response, before any connection is acquired
\* or the repository is called: the handler goes from its checks to its
\* return.
C4_FewerThanTwoLinesRefused ==
    \A p \in Procs :
        (/\ req[p].op = "CreateJournalEntry"
         /\ Len(req[p].lines) < 2)
        => /\ pc[p] = "done"
           /\ result[p].code = "InvalidArgument"
           /\ result[p].rows = {}
           /\ txConn[p] = NoConn
           /\ rdConn[p] = NoConn
           /\ newID[p] = NoId

\* A one-line request with a valid tenant was refused.
C4_OneLineRefused ==
    \E p \in Procs :
        /\ pc[p] = "done"
        /\ req[p].op = "CreateJournalEntry"
        /\ req[p].tenant_id = "A"
        /\ Len(req[p].lines) = 1
        /\ result[p].msg = "journal entry must have at least two lines"

(***************************************************************************)
(* Properties of the access gate: tenant context and pooled connections.   *)
(***************************************************************************)
\* The connection on which the handler of p executes statements, NoConn when
\* it holds none.
StatementConn(p) ==
    IF pc[p] \in {"call", "commit"} THEN txConn[p]
    ELSE IF pc[p] \in {"query", "t_create_q", "t_get_q"} THEN rdConn[p]
    ELSE NoConn

\* The operations that run without a tenant context.
Unscoped(r) == r.op \in {"CreateTenant", "GetTenant"}

C6_WithTenantContextInEffect ==
    \A p \in Procs :
        pc[p] = "query"
        => CurrentTenant(pool[rdConn[p]]) = req[p].tenant_id

\* C7: a connection that was bound to one tenant, released, and acquired again
\* for another tenant or for an unscoped operation runs no statement of the
\* later operation with the earlier tenant's context: a statement sees the
\* tenant of its own request or none, and an unscoped one sees none.
C7_NoTenantContextLeak ==
    \A p \in Procs :
        StatementConn(p) # NoConn
        => CurrentTenant(pool[StatementConn(p)]) \in
              (IF Unscoped(req[p]) THEN {NoTenant} ELSE {NoTenant, req[p].tenant_id})

\* A transaction of one tenant runs on the connection that last served the
\* other tenant.
C7_ConnectionReusedAcrossTenants ==
    \E p \in Procs :
        /\ pc[p] = "call"
        /\ pool[txConn[p]].served \notin {NoTenant, req[p].tenant_id}
        /\ CurrentTenant(pool[txConn[p]]) = req[p].tenant_id

\* C8: every connection WithTenant or BeginTx acquired is back in the pool
\* when the operation returns, on every exit path: a handler that has returned
\* holds no connection, every connection in use is held by a running handler,
\* and so none is in use once all have returned.
C8_ConnectionsReleasedOnReturn ==
    /\ \A p \in Procs :
          pc[p] \in {"idle", "done", "begin", "with", "t_create", "t_get"}
          => txConn[p] = NoConn /\ rdConn[p] = NoConn
    /\ {c \in Conns : pool[c].inUse} =
          ({txConn[p] : p \in Procs} \cup {rdConn[p] : p \in Procs}) \ {NoConn}

\* A create returned on the commit error of a cancelled call, and no
\* connection is in use.
C8_ReturnedAfterCommitError ==
    \E p \in Procs :
        /\ pc[p] = "done"
        /\ ctxDone[p]
        /\ result[p].msg = "failed to commit transaction"
        /\ \A c \in Conns : ~pool[c].inUse

\* C9: when CreateJournalEntry, CreateAccount or CreateTenant returns an
\* error, nothing the call wrote is persisted.
C9_ErrorMeansNothingPersisted ==
    \A p \in Procs :
        (/\ pc[p] = "done"
         /\ req[p].op \in {"CreateJournalEntry", "CreateAccount", "CreateTenant"}
         /\ result[p].code # "OK")
        => newID[p] \notin
              DOMAIN journal_entries \cup DOMAIN accounts \cup DOMAIN tenants

\* C10: once the caller's context is done before the commit of
\* CreateJournalEntry or CreateAccount, no step of the call changes the
\* store, and the call's next step is its error return.
C10_CancelBeforeCommitRollsBack ==
    [][\A p \in Procs :
          (ctxDone[p] /\ pc[p] \in {"begin", "call", "commit"})
          => /\ store' = store
             /\ (pc'[p] # pc[p] => (pc'[p] = "done" /\ result'[p].code # "OK"))]_vars

\* A call cancelled with its writes pending returned the commit error, its
\* connection's transaction gone and its entry or account absent.
C10_CancelledAtCommit ==
    \E p \in Procs :
        /\ pc[p] = "done"
        /\ ctxDone[p]
        /\ result[p].msg = "failed to commit transaction"
        /\ newID[p] # NoId
        /\ newID[p] \notin DOMAIN journal_entries \cup DOMAIN accounts
        /\ \A c \in Conns : ~pool[c].txOpen /\ pool[c].pending = NoWrites

(***************************************************************************)
(* Properties of committed entries and accounts.                           *)
(***************************************************************************)
\* C11: while a CreateJournalEntry commit is in progress or after it
\* completed, what a concurrent reader's statement can see of the entry is all
\* or nothing: with the header visible all the request's lines and all their
\* balance deltas are, and without it the balances hold none of them.
C11_EntryVisibleWhollyOrNotAtAll ==
    \A p \in Procs :
        (req[p].op = "CreateJournalEntry" /\ newID[p] # NoId)
        => IF newID[p] \in DOMAIN journal_entries
           THEN /\ journal_entries[newID[p]].lines = ParsedLines(req[p])
                /\ \A a \in LineAccounts(ParsedLines(req[p])) :
                      account_balances[a] = CommittedLines(DOMAIN journal_entries, a)
           ELSE \A a \in DOMAIN account_balances :
                   account_balances[a] =
                      CommittedLines(DOMAIN journal_entries \ {newID[p]}, a)

\* A reader of a1's balance runs its SELECT while another handler's entry
\* against a1 waits for its commit.
C11_ReaderDuringCommit ==
    \E p, q \in Procs :
        /\ pc[p] = "commit"
        /\ req[p].op = "CreateJournalEntry"
        /\ pool[txConn[p]].pending.kind = "entry"
        /\ pc[q] = "query"
        /\ req[q].op = "GetAccountBalance"
        /\ req[q].id \in LineAccounts(pool[txConn[p]].pending.lines)

\* C12: every committed journal entry has the sum of its lines' debits equal
\* to the sum of its lines' credits, in every reachable state.
C12_CommittedEntriesBalanced ==
    \A e \in DOMAIN journal_entries :
        SumDebit(journal_entries[e].lines) = SumCredit(journal_entries[e].lines)

\* An entry is committed, and an unbalanced one was handed to the store and
\* is not.
C12_BalancedInUnbalancedOut ==
    \E p \in Procs :
        /\ journal_entries # <<>>
        /\ pc[p] = "done"
        /\ Unbalanced(req[p])
        /\ newID[p] = NoId
        /\ result[p].msg = "failed to create journal entry"

\* An amount text that is a non-negative exact decimal.
NonNegativeDecimal(t) == ~NewFromString(t).err /\ NewFromString(t).val >= 0

\* C13: CreateJournalEntry fails with InvalidArgument, nothing persisted,
\* whenever a line's debit or credit is not a non-negative exact decimal, a
\* well-formed negative amount included; hence every committed line has
\* debit >= 0 and credit >= 0.
C13_NegativeOrMalformedAmountRefused ==
    /\ \A p \in Procs :
          (/\ pc[p] = "done"
           /\ req[p].op = "CreateJournalEntry"
           /\ ~UuidParse(req[p].tenant_id).err
           /\ Len(req[p].lines) >= 2
           /\ \E i \in DOMAIN req[p].lines :
                 \/ ~NonNegativeDecimal(req[p].lines[i].debit)
                 \/ ~NonNegativeDecimal(req[p].lines[i].credit))
          => result[p].code = "InvalidArgument" /\ newID[p] = NoId
    /\ \A e \in DOMAIN journal_entries :
          \A i \in DOMAIN journal_entries[e].lines :
              /\ journal_entries[e].lines[i].debit >= 0
              /\ journal_entries[e].lines[i].credit >= 0

\* The committed entries of tenant t.
EntriesOf(t) == {e \in DOMAIN journal_entries : journal_entries[e].tenant_id = t}

Unreferenced(a) ==
    \A e \in DOMAIN journal_entries : a \notin LineAccounts(journal_entries[e].lines)

C16_BalanceRowIffAccountRow ==
    /\ DOMAIN account_balances = DOMAIN accounts
    /\ \A p \in Procs :
          (req[p].op = "CreateAccount" /\ pc[p] = "done" /\ result[p].code # "OK"
           /\ newID[p] \notin DOMAIN accounts)
          => newID[p] \notin DOMAIN account_balances

\* A CreateAccount failed at its commit, after create_account had written
\* the account, and left no row of either table.
C16_FailedAfterAccountWritten ==
    \E p \in Procs :
        /\ pc[p] = "done"
        /\ req[p].op = "CreateAccount"
        /\ result[p].msg = "failed to commit transaction"
        /\ newID[p] # NoId
        /\ newID[p] \notin DOMAIN accounts \cup DOMAIN account_balances

\* A CreateAccount request the handler must refuse.
InvalidCreateAccount(r) ==
    /\ r.op = "CreateAccount"
    /\ \/ UuidParse(r.tenant_id).err
       \/ r.account_number = ""
       \/ r.name = ""
       \/ (r.id # NoId /\ UuidParse(r.id).err)

\* C19: CreateAccount fails with InvalidArgument when the tenant id is
\* malformed, account_number or name is empty, or a supplied
\* parent_account_id is malformed; it then returns no response and does not
\* call the account repository: no connection, nothing persisted.
C19_InvalidCreateAccountRefused ==
    \A p \in Procs :
        InvalidCreateAccount(req[p])
        => /\ pc[p] = "done"
           /\ result[p].code = "InvalidArgument"
           /\ result[p].rows = {}
           /\ txConn[p] = NoConn
           /\ rdConn[p] = NoConn
           /\ newID[p] = NoId

\* A request that is valid but for its malformed parent was refused.
C19_MalformedParentRefused ==
    \E p \in Procs :
        /\ pc[p] = "done"
        /\ req[p].op = "CreateAccount"
        /\ req[p].tenant_id = "A"
        /\ req[p].name = "Bank"
        /\ req[p].account_number = "2000"
        /\ req[p].id = BadUuid
        /\ result[p].msg = "invalid parent account ID"

\* C17: a committed journal entry stays committed and unchanged in every
\* later state: no step of any operation updates or deletes its header or
\* lines.
C17_CommittedEntriesImmutable ==
    [][\A e \in DOMAIN journal_entries :
          /\ e \in DOMAIN journal_entries'
          /\ journal_entries'[e] = journal_entries[e]]_vars

\* An entry was committed, and after it another entry and an account.
C17_OperationsAfterCommit ==
    /\ Cardinality(DOMAIN journal_entries) = 2
    /\ DOMAIN accounts # SeedAccounts

\* C18: account balances are changed only by a committing CreateJournalEntry:
\* a step that changes the balance of an existing account is the commit of a
\* CreateJournalEntry with a line against it, and a CreateJournalEntry that
\* returned an error has left every balance as it was (the balances hold
\* nothing of its entry).
C18_BalancesChangeOnlyByCommittedEntry ==
    [][/\ \A a \in DOMAIN account_balances :
             account_balances'[a] # account_balances[a]
             => \E p \in Procs :
                   /\ req[p].op = "CreateJournalEntry"
                   /\ pc[p] = "commit"
                   /\ pc'[p] # "commit"
                   /\ a \in LineAccounts(pool[txConn[p]].pending.lines)
       /\ \A p \in Procs :
             (/\ pc[p] = "done"
              /\ req[p].op = "CreateJournalEntry"
              /\ result[p].code # "OK")
             => \A a \in DOMAIN account_balances :
                   account_balances[a] =
                      CommittedLines(DOMAIN journal_entries \ {newID[p]}, a)]_vars

\* C20: CreateTenant with an empty name fails with InvalidArgument, returns
\* no response and does not call the tenant repository, so no tenant is
\* created; with a non-empty name and a store that succeeds it returns the id
\* and the name of the tenant the store created.
C20_CreateTenantChecksName ==
    \A p \in Procs :
        req[p].op = "CreateTenant"
        => /\ req[p].name = ""
              => /\ pc[p] = "done"
                 /\ result[p].code = "InvalidArgument"
                 /\ result[p].rows = {}
                 /\ rdConn[p] = NoConn
                 /\ newID[p] = NoId
           /\ (pc[p] = "done" /\ result[p].code = "OK")
              => /\ newID[p] \in DOMAIN tenants
                 /\ tenants[newID[p]] = req[p].name
                 /\ result[p].rows = {[id |-> newID[p], name |-> req[p].name]}

\* A CreateTenant with a name returned the tenant the store created.
C20_TenantReturned ==
    \E p \in Procs :
        /\ pc[p] = "done"
        /\ req[p].op = "CreateTenant"
        /\ result[p].code = "OK"
        /\ result[p].rows = {[id |-> "C", name |-> "Acme"]}

(***************************************************************************)
(* Error kinds, parent references, pagination, listing, resources.         *)
(***************************************************************************)
\* The operations that run under a tenant context.
TenantScopedOps == TenantScopedReads \cup {"CreateJournalEntry", "CreateAccount"}

\* C21: a tenant-scoped operation that could not acquire a pooled connection
\* before the caller's deadline fails with Unavailable, and one that acquired
\* the connection but could not establish the tenant context fails with
\* Internal.  (The acquisition fails exactly when the caller's context is
\* done; a failure with the context still live is one of the statements that
\* establish the context.)
C21_AcquireUnavailableContextInternal ==
    \A p \in Procs :
        (/\ pc[p] = "done"
         /\ req[p].op \in TenantScopedOps
         /\ result[p].msg \in {"failed to set tenant context",
                               "failed to begin transaction"})
        => result[p].code = IF ctxDone[p] THEN "Unavailable" ELSE "Internal"

\* A CreateAccount request that passed the handler's checks and whose parent
\* reference names no account, or an account of another tenant.
BadParent(r) ==
    /\ r.op = "CreateAccount"
    /\ ServiceCheck(r).code = "OK"
    /\ r.id # NoId
    /\ \/ r.id \notin DOMAIN accounts
       \/ accounts[r.id].tenant_id # r.tenant_id

C24_LimitClampedOffsetFromPage ==
    \A p \in Procs :
        (pc[p] # "idle" /\ req[p].op \in ListOps /\ ServiceCheck(req[p]).code = "OK")
        => LET limit == listArgs[p].limit
               offset == listArgs[p].offset
               ps == req[p].page_size
               pg == req[p].page
           IN /\ limit \in 1..100
              /\ limit = IF ps < 1 THEN 50 ELSE IF ps > 100 THEN 100 ELSE ps
              /\ offset.hi >= 0
              /\ offset.lo \in 0..(Limb - 1)
              /\ IntDivMod(offset, limit)
                    = [quot |-> (IF pg < 1 THEN 1 ELSE pg) - 1, rem |-> 0]

\* A list handler with the largest page and a page size above 100 is under
\* way: limit 100 and an offset beyond the int32 range.
C24_LargestPage ==
    \E p \in Procs :
        /\ pc[p] = "with"
        /\ req[p].op = "ListJournalEntries"
        /\ req[p].page = MaxInt32
        /\ req[p].page_size = 101
        /\ listArgs[p].limit = 100
        /\ listArgs[p].offset.hi > MaxInt32 \div Limb

(***************************************************************************)
(* What the reads return.  With the policies in force no read returns a    *)
(* row (C6), so these are checked for the service run as the superuser,    *)
(* the role of the README's defaults, whose reads do return rows.          *)
(***************************************************************************)
\* C23: GetJournalEntry returns the lines of a committed entry in the order
\* in which they were given to CreateJournalEntry, also when all lines of the
\* entry were inserted in one transaction and carry the same creation
\* timestamp.
C23_LinesInCreationOrder ==
    \A p \in Procs :
        (pc[p] = "done" /\ req[p].op = "GetJournalEntry" /\ result[p].code = "OK")
        => \A row \in result[p].rows : row.lines = journal_entries[row.id].lines

\* Whether a returned read failed on a cancelled context or an injected fault
\* of the store.
Faulted(p) ==
    \/ ctxDone[p]
    \/ result[p].msg \in {"failed to set tenant context", "query failed"}

\* The committed entries of tenant t with at least one line against account a.
EntriesAgainst(t, a) ==
    {e \in EntriesOf(t) : a \in LineAccounts(journal_entries[e].lines)}

\* C25: ListJournalEntries with account_filter set returns exactly the
\* tenant's entries that have at least one line against that account, each
\* once, and total_count counts each such entry once.
C25_AccountFilterReturnsMatchingEntriesOnce ==
    \A p \in Procs :
        (/\ pc[p] = "done"
         /\ req[p].op = "ListJournalEntries"
         /\ ServiceCheck(req[p]).code = "OK"
         /\ req[p].id # NoId
         /\ ~Faulted(p))
        => /\ result[p].code = "OK"
           /\ \A r \in result[p].reply :
                 /\ {row.id : row \in r.journal_entries}
                       = EntriesAgainst(req[p].tenant_id, req[p].id)
                 /\ r.total_count
                       = Cardinality(EntriesAgainst(req[p].tenant_id, req[p].id))

\* C26: GetAccountBalance returns the stored debit_balance and credit_balance
\* unchanged and a net_balance equal to debit_balance - credit_balance,
\* negative when the credits exceed the debits.
C26_NetBalanceIsDebitMinusCredit ==
    \A p \in Procs :
        (pc[p] = "done" /\ req[p].op = "GetAccountBalance" /\ result[p].code = "OK")
        => /\ result[p].reply # {}
           /\ \A r \in result[p].reply :
                 /\ r.account_id = req[p].id
                 /\ TextValue(r.debit_balance) = account_balances[req[p].id].debit
                 /\ TextValue(r.credit_balance) = account_balances[req[p].id].credit
                 /\ TextValue(r.net_balance)
                       = account_balances[req[p].id].debit
                         - account_balances[req[p].id].credit
                 /\ (r.net_balance.sign = "-"
                       <=> account_balances[req[p].id].credit
                           > account_balances[req[p].id].debit)

\* The balance of an account with more credits than debits was returned.
C26_NegativeNetReturned ==
    \E p \in Procs :
        /\ pc[p] = "done"
        /\ req[p].op = "GetAccountBalance"
        /\ result[p].code = "OK"
        /\ account_balances[req[p].id].credit > account_balances[req[p].id].debit
        /\ \E r \in result[p].reply : r.net_balance.sign = "-"

\* C28: a ListJournalEntries call whose page matches at least one entry
\* returns that entry together with its lines; the lines query is never
\* issued on a connection whose entries' rows are still open.
C28_ListReturnsEntriesWithLines ==
    \A p \in Procs :
        (/\ pc[p] = "done"
         /\ req[p].op = "ListJournalEntries"
         /\ ServiceCheck(req[p]).code = "OK"
         /\ req[p].id = NoId
         /\ EntriesOf(req[p].tenant_id) # {}
         /\ ~Faulted(p))
        => /\ result[p].code = "OK"
           /\ \A r \in result[p].reply :
                 \E row \in r.journal_entries :
                    row.id \in EntriesOf(req[p].tenant_id) /\ Len(row.lines) >= 2

\* C30: the entity a successful CreateJournalEntry or CreateAccount returns
\* is read on a connection acquired after the commit released the
\* transaction's, under the tenant of the write: the returned id is the id
\* produced inside the committed transaction, and the returned entry carries
\* exactly the lines that were committed.
C30_ReturnedEntityIsTheCommittedOne ==
    \A p \in Procs :
        req[p].op \in {"CreateJournalEntry", "CreateAccount"}
        => /\ pc[p] = "query"
              => /\ txConn[p] = NoConn
                 /\ rdConn[p] # NoConn
                 /\ pool[rdConn[p]].bound = req[p].tenant_id
                 /\ newID[p] \in DOMAIN journal_entries \cup DOMAIN accounts
           /\ (pc[p] = "done" /\ result[p].code = "OK")
              => /\ {row.id : row \in result[p].rows} = {newID[p]}
                 /\ \A row \in result[p].rows : row.tenant_id = req[p].tenant_id
                 /\ req[p].op = "CreateJournalEntry"
                    => /\ newID[p] \in DOMAIN journal_entries
                       /\ journal_entries[newID[p]].lines = ParsedLines(req[p])
                       /\ \A row \in result[p].rows :
                             /\ Len(row.lines) = Len(req[p].lines)
                             /\ \A l \in {row.lines[i] : i \in DOMAIN row.lines} :
                                   Len(LinesOf(row.lines, l.account_id))
                                      = Len(LinesOf(ParsedLines(req[p]), l.account_id))
                             /\ {row.lines[i] : i \in DOMAIN row.lines}
                                   = {ParsedLines(req[p])[i] : i \in DOMAIN req[p].lines}
                 /\ req[p].op = "CreateAccount" => newID[p] \in DOMAIN accounts

\* A second CreateJournalEntry returned its entry of two lines.
C30_SecondEntryReturned ==
    \E p \in Procs :
        /\ pc[p] = "done"
        /\ req[p].op = "CreateJournalEntry"
        /\ result[p].code = "OK"
        /\ newID[p] = "e2"
        /\ \E row \in result[p].rows : row.id = "e2" /\ Len(row.lines) = 2

\* C29: when Create returns after a successful Commit, its deferred
\* TenantTx.Rollback changes nothing in the store, and the second Release of
\* the transaction's connection leaves every connection another operation is
\* running statements on exactly as it was.
C29_DeferredRollbackAfterCommitIsInert ==
    [][\A p \in Procs :
          (/\ req[p].op \in {"CreateJournalEntry", "CreateAccount"}
           /\ pc[p] \in {"with", "query"}
           /\ pc'[p] = "done")
          => /\ store' = store
             /\ \A q \in Procs \ {p} :
                   StatementConn(q) # NoConn
                   => /\ pool'[StatementConn(q)] = pool[StatementConn(q)]
                      /\ StatementConn(q)' = StatementConn(q)]_vars

\* A Create has returned after its commit while another operation runs its
\* transaction on the one connection of the pool that has ever been used:
\* the connection the Create's Commit released.
C29_ReleasedConnectionReacquired ==
    \E p \in Procs : \E q \in Procs \ {p} :
        /\ pc[p] = "done"
        /\ req[p].op = "CreateJournalEntry"
        /\ result[p].msg = "failed to set tenant context"
        /\ newID[p] \in DOMAIN journal_entries
        /\ pc[q] = "call"
        /\ pool[txConn[q]].txOpen
        /\ \A d \in DOMAIN pool \ {txConn[q]} : pool[d] = FreshConn

\* The connections of the pool that are handed out.
Acquired == {c \in Conns : pool[c].inUse /\ pool[c] # Unopened}

\* C27: whatever the size of the pool, an operation in flight holds at most
\* one connection, and none while it waits for one (at BeginTx or at
\* WithTenant, the follow-up read of Create included); with fair scheduling
\* every started operation returns, and once no operation is in flight every
\* connection of the pool is idle.
C27_EveryOperationReturnsPoolGoesIdle ==
    /\ [](/\ Acquired = {StatementConn(p) : p \in Procs} \ {NoConn}
          /\ \A p, q \in Procs :
                (p # q /\ StatementConn(p) # NoConn)
                => StatementConn(p) # StatementConn(q)
          /\ \A p \in Procs :
                /\ ~(txConn[p] # NoConn /\ rdConn[p] # NoConn)
                /\ pc[p] \in {"begin", "with"}
                   => txConn[p] = NoConn /\ rdConn[p] = NoConn
          /\ (\A p \in Procs : pc[p] \in {"idle", "done"}) => Acquired = {})
    /\ \A p \in Procs : (pc[p] # "idle") ~> (pc[p] = "done")

\* A pool of one connection is held by one Create's transaction while the
\* other handler waits for a connection to begin its own.
C27_WaitingForTheOnlyConnection ==
    \E p \in Procs : \E q \in Procs \ {p} :
        /\ Cardinality({c \in Conns : pool[c] # Unopened}) = 1
        /\ pc[p] = "commit"
        /\ pc[q] \in {"begin", "with"}
        /\ ~ctxDone[q]
        /\ IdleConns = {}

====
